---- MODULE Spec2Model ----
(***************************************************************************)
(* The XKC codec of XLib (src/unnamed/part_002): run-length pass, alphabet *)
(* construction, balanced path tree, bit-packed encode and the matching    *)
(* decode, for the symbol widths decide_alphabet_type() accepts.           *)
(*                                                                         *)
(* One behaviour is one call of encode(data, size) followed by one call of *)
(* decode on the buffer encode returned.  Every loop iteration of the two  *)
(* functions is one step; pc is the position in the code.                  *)
(*                                                                         *)
(* The winexts kernel module (src/winexts/main.c): init_mod and free_mod,  *)
(* one step per kernel call, under ModSpec.                                *)
(***************************************************************************)
EXTENDS Integers, Sequences, FiniteSets

VARIABLES
    width,        \* sizeof(alphabet_T)
    data,         \* encode's input buffer, a sequence of bytes
    pc,           \* position in encode / decode
    occurrences,  \* encode: occurrences_t occurrences
    alphabet,     \* encode: alphabet_t alphabet
    binary_tree,  \* encode: BinaryTree binary_tree
    enc,          \* encode: the remaining locals
    result,       \* encode: bytes_t result
    dec,          \* decode: its locals
    decoded,      \* decode: bytes_t result
    x86_64,       \* winexts: CONFIG_X86_64 is defined in the build
    mod_pc,       \* winexts: position in init_mod / free_mod
    ret,          \* init_mod: int ret
    returned,     \* init_mod: the value it returned
    todo,         \* the calls left in the branch being executed
    g_dev,        \* static dev_t g_dev
    g_cl,         \* static struct class* g_cl
    acquired,     \* kernel: how many times each resource was handed out
    released,     \* kernel: how many times each resource was taken back
    hooks         \* the hooks of init_hooks are installed

xkc_vars == <<width, data, pc, occurrences, alphabet, binary_tree, enc, result, dec, decoded>>

mod_vars == <<x86_64, mod_pc, ret, returned, todo, g_dev, g_cl, acquired, released, hooks>>

vars == <<xkc_vars, mod_vars>>

(***************************************************************************)
(* Bounds of the model and constants of the program.                       *)
(***************************************************************************)
\* Longest enumerated input, in symbols.
MaxLen == 4

\* Largest alphabet for which every ordering std::sort may return is explored.
PermLimit == 4

\* std::numeric_limits<decltype(Occurrence::count)>::max(), count being a byte_t.
ByteMax == 255

\* Node::Value::INVALID
INVALID == -1

\* The widths decide_alphabet_type() accepts.
Widths == {1, 2, 4}

RECURSIVE Pow2(_)
Pow2(n) == IF n = 0 THEN 1 ELSE 2 * Pow2(n - 1)

\* Bit i of the non-negative integer x: x & (1 << i).
Bit(x, i) == (x \div Pow2(i)) % 2

Max(a, b) == IF a >= b THEN a ELSE b

\* The element of the one-element set S.  {F(x) : x \in {e}} computes e once and
\* hands its value to F, as the code computes a local once and reads it after.
TheOne(S) == CHOOSE x \in S : TRUE

\* view_as<byte_t>(x): conversion of an unsigned value to one byte.
AsByte(x) == x % 256

\* Conversion of the integer v to alphabet_T.  The four-byte symbols of the
\* model are below 2^31 and the conversion leaves them as they are.
AsSymbol(w, v) == IF w < 4 THEN v % Pow2(8 * w) ELSE v

(***************************************************************************)
(* Inputs.  A buffer is a sequence of bytes; encode reads it as an array   *)
(* of alphabet_T (little-endian host).                                     *)
(***************************************************************************)
Symbols(w) ==
    CASE w = 1 -> {65, 66, 67}
      [] w = 2 -> {65, 66, 321}
      [] w = 4 -> {65, 65601}

SeqsUpTo(S, n) == UNION {[1..k -> S] : k \in 0..n}

\* The bytes of symbol sequence s at width w.
ToBytes(w, s) ==
    [i \in 1..(w * Len(s)) |-> (s[((i - 1) \div w) + 1] \div Pow2(8 * ((i - 1) % w))) % 256]

\* A stretch of 2 * 255 + 2 equal symbols followed by another symbol.
LongRun == [i \in 1..(2 * ByteMax + 3) |-> IF i <= 2 * ByteMax + 2 THEN 65 ELSE 66]

\* Every byte value once.
AllBytes == [i \in 1..(ByteMax + 1) |-> i - 1]

\* ByteMax + 2 distinct two-byte symbols.
Wide257 == [i \in 1..(ByteMax + 2) |-> i - 1]

Inputs(w) ==
    {ToBytes(w, s) : s \in SeqsUpTo(Symbols(w), MaxLen)}
        \cup (IF w = 1 THEN {LongRun, AllBytes} ELSE {})
        \cup (IF w = 2 THEN {ToBytes(2, Wide257)} ELSE {})

\* values[i] of encode, i counted from 0: view_as<alphabet_T*>(data)[i].
RECURSIVE LittleEndian(_, _, _)
LittleEndian(bytes, from, n) ==
    IF n = 0 THEN 0 ELSE bytes[from] + 256 * LittleEndian(bytes, from + 1, n - 1)

ValueAt(i) == LittleEndian(data, width * i + 1, width)

\* max_values = size / sizeof(alphabet_T)
max_values == Len(data) \div width

\* The input as the sequence of symbols encode sees.
Values == [i \in 1..max_values |-> ValueAt(i - 1)]

(***************************************************************************)
(* BinaryTree.  Nodes live in an arena: node n has value[n], left[n],      *)
(* right[n], parent[n]; 0 is nullptr and node 1 is the root.               *)
(***************************************************************************)
Root == 1

\* BinaryTree::BinaryTree(): root(new Node())
NewTree == [value |-> <<INVALID>>, left |-> <<0>>, right |-> <<0>>, parent |-> <<0>>]

NumNodes(t) == Len(t.value)

\* new Node({ parent->root, parent, value })
NewNode(t, parent, value) ==
    [value  |-> Append(t.value, value),
     left   |-> Append(t.left, 0),
     right  |-> Append(t.right, 0),
     parent |-> Append(t.parent, parent)]

\* count_nodes that leaves the right subtree out.
RECURSIVE count_nodes_left_only(_, _)
count_nodes_left_only(t, n) ==
    IF t.left[n] # 0 THEN count_nodes_left_only(t, t.left[n]) + 1 ELSE 0

\* Node::count_nodes(): the number of nodes below n.
RECURSIVE count_nodes(_, _)
count_nodes(t, n) ==
    (IF t.left[n] # 0 THEN count_nodes(t, t.left[n]) + 1 ELSE 0)
        + (IF t.right[n] # 0 THEN count_nodes(t, t.right[n]) + 1 ELSE 0)

RECURSIVE ParentChain(_, _)
ParentChain(t, node) == IF node = 0 THEN 0 ELSE 1 + ParentChain(t, t.parent[node])

\* Node::depth(): number of parents above n.
depth(t, n) == ParentChain(t, t.parent[n])

\* height that leaves the left subtree out.
RECURSIVE height_right_only(_, _)
height_right_only(t, n) ==
    IF t.right[n] # 0 THEN height_right_only(t, t.right[n]) + 1 ELSE 0

\* Node::height()
RECURSIVE height(_, _)
height(t, n) ==
    Max(IF t.left[n] # 0 THEN height(t, t.left[n]) + 1 ELSE 0,
        IF t.right[n] # 0 THEN height(t, t.right[n]) + 1 ELSE 0)

\* insert that descends to the right when the two subtrees have as many nodes.
RECURSIVE insert_at_ties_right(_, _, _)
insert_at_ties_right(t, parent, value) ==
    IF t.left[parent] = 0
        THEN [NewNode(t, parent, value) EXCEPT !.left[parent] = NumNodes(t) + 1]
    ELSE IF t.right[parent] = 0
        THEN [NewNode(t, parent, value) EXCEPT !.right[parent] = NumNodes(t) + 1]
    ELSE IF count_nodes(t, t.left[parent]) < count_nodes(t, t.right[parent])
        THEN insert_at_ties_right(t, t.left[parent], value)
    ELSE insert_at_ties_right(t, t.right[parent], value)

\* BinaryTree::insert(shared_node parent, alphabet_T value)
RECURSIVE insert_at(_, _, _)
insert_at(t, parent, value) ==
    IF t.left[parent] = 0
        THEN [NewNode(t, parent, value) EXCEPT !.left[parent] = NumNodes(t) + 1]
    ELSE IF t.right[parent] = 0
        THEN [NewNode(t, parent, value) EXCEPT !.right[parent] = NumNodes(t) + 1]
    ELSE IF count_nodes(t, t.left[parent]) <= count_nodes(t, t.right[parent])
        THEN insert_at(t, t.left[parent], value)
    ELSE insert_at(t, t.right[parent], value)

\* BinaryTree::insert(alphabet_T value)
insert(t, value) ==
    IF t.value[Root] = INVALID
        THEN [t EXCEPT !.value[Root] = value]
        ELSE insert_at(t, Root, value)

\* Number of bits of bit_path_t, std::bitset<std::numeric_limits<alphabet_T>::max() + 1>.
\* For one and two byte symbols the sum is computed in int; for four byte symbols
\* it is computed in a 32-bit unsigned type, where max() + 1 wraps to 0.
BitPathSize(w) == IF w < 4 THEN Pow2(8 * w) ELSE 0

\* PathInfo as its default member initialisers leave it.  bit_path is the set of
\* the indices of its bits that are 1.
ZeroPathInfo == [bit_path |-> {}, depth |-> 0]

\* pathInfo.bit_path[index] = bit on the result r of a search.  An index outside
\* the bitset is undefined behaviour: the call does not return (fault).
SetBit(w, r, index, bit) ==
    IF r.fault \/ index >= BitPathSize(w)
        THEN [r EXCEPT !.fault = TRUE]
        ELSE [r EXCEPT !.info.bit_path = IF bit = 1 THEN @ \cup {index} ELSE @ \ {index}]

\* BinaryTree::path_info(PathInfo& pathInfo, shared_node parent, alphabet_T value):
\* found is the returned bool, info is pathInfo as the call leaves it.
RECURSIVE path_info_at(_, _, _, _, _)
path_info_at(w, t, pathInfo, parent, value) ==
    IF parent = 0
        THEN [found |-> FALSE, info |-> pathInfo, fault |-> FALSE]
    ELSE IF t.value[parent] = value
        THEN [found |-> TRUE, info |-> [pathInfo EXCEPT !.depth = depth(t, parent)],
              fault |-> FALSE]
    ELSE TheOne({
         IF found_left.fault THEN found_left
         ELSE IF found_left.found
             THEN SetBit(w, found_left, depth(t, parent), 0)
         ELSE TheOne({
              IF marked.fault THEN marked
              ELSE TheOne({
                   IF found_right.fault THEN found_right
                   ELSE IF found_right.found
                       THEN SetBit(w, found_right, depth(t, parent), 1)
                   ELSE SetBit(w, found_right, depth(t, parent), 0)
                   : found_right \in
                         {path_info_at(w, t, marked.info, t.right[parent], value)}})
              : marked \in {SetBit(w, found_left, depth(t, parent), 1)}})
         : found_left \in {path_info_at(w, t, pathInfo, t.left[parent], value)}})

\* BinaryTree::path_info(PathInfo& pathInfo, alphabet_T value)
path_info(w, t, pathInfo, value) == path_info_at(w, t, pathInfo, Root, value)

\* The node find_value's loop stands on after `steps` levels, 0 once it has
\* followed a missing child.
RECURSIVE Walk(_, _, _, _)
Walk(t, pathInfo, current_node, level) ==
    IF level >= pathInfo.depth \/ current_node = 0 THEN current_node
    ELSE TheOne({Walk(t, pathInfo, next_node, level + 1) :
                     next_node \in {IF level \in pathInfo.bit_path
                                        THEN t.right[current_node]
                                        ELSE t.left[current_node]}})

\* BinaryTree::find_value(PathInfoResult& pathInfo): letter_value is the value
\* stored (converted to alphabet_T); reading through a null node, or a bit
\* outside the bitset, is undefined behaviour (fault).
find_value(w, t, pathInfo) ==
    LET current_node == Walk(t, pathInfo, Root, 0) IN
    IF current_node = 0 \/ pathInfo.depth > BitPathSize(w)
        THEN [letter_value |-> 0, fault |-> TRUE]
        ELSE [letter_value |-> AsSymbol(w, t.value[current_node]), fault |-> FALSE]

\* BitsNeeded(n) of bits.h: the number of bits needed to represent n.
RECURSIVE BitsNeeded(_)
BitsNeeded(n) == IF n = 0 THEN 0 ELSE 1 + BitsNeeded(n \div 2)

(***************************************************************************)
(* The run-length pass and the alphabet.                                   *)
(***************************************************************************)
\* The inner for loop of the contiguous-values pass, entered with count = 1 at
\* value_index = start + 1.  occurrence.count is a byte_t that is incremented
\* once per index passed, so at value_index it holds CountAt(start, value_index).
CountAt(start, value_index) == AsByte(value_index - start)

\* The loop with its break one count early.
LeavesAtEarlyCap(start, value_index) ==
    \/ value_index >= max_values
    \/ CountAt(start, value_index) = ByteMax - 1
    \/ ValueAt(start) # ValueAt(value_index)

\* The loop without the break on a full count.
LeavesAtUncapped(start, value_index) ==
    \/ value_index >= max_values
    \/ ValueAt(start) # ValueAt(value_index)

\* The loop leaves at value_index: its condition fails or one of its breaks is taken.
LeavesAt(start, value_index) ==
    \/ value_index >= max_values
    \/ CountAt(start, value_index) = ByteMax
    \/ ValueAt(start) # ValueAt(value_index)

\* The value_index the loop ends with: the first index at which it leaves.
ExtendOccurrence(start) ==
    CHOOSE value_index \in (start + 1)..max_values :
        /\ LeavesAt(start, value_index)
        /\ \A k \in (start + 1)..(value_index - 1) : ~LeavesAt(start, k)

\* Index in alphabet a of the Letter with the given value, 0 when there is none
\* (std::find_if returns the first match).
FindLetter(a, value) ==
    LET matches == {i \in 1..Len(a) : a[i].value = value} IN
    IF matches = {} THEN 0 ELSE CHOOSE i \in matches : \A j \in matches : i <= j

\* One iteration of the "Construct the alphabet" loop.
AddOccurrence(a, occurrence) ==
    LET i == FindLetter(a, occurrence.letter_value) IN
    IF i # 0
        THEN [a EXCEPT ![i].freq = @ + occurrence.count]
        ELSE Append(a, [value |-> occurrence.letter_value, freq |-> occurrence.count])

\* The comparison turned round.
SortBeforeAscending(a, b) == a.freq < b.freq

\* The comparison given to std::sort.
SortBefore(a, b) == a.freq > b.freq

Rearrangements(n) == {p \in [1..n -> 1..n] : \A i, j \in 1..n : i # j => p[i] # p[j]}

\* s is ordered by the comparison: no element is before one that precedes it.
Ordered(s) == \A i, j \in 1..Len(s) : i < j => ~SortBefore(s[j], s[i])

\* The permutation that keeps equal elements in their order (rank of element i).
StableRank(a) ==
    [i \in 1..Len(a) |->
        Cardinality({j \in 1..Len(a) : SortBefore(a[j], a[i])})
            + Cardinality({j \in 1..i : ~SortBefore(a[j], a[i]) /\ ~SortBefore(a[i], a[j])})]

\* The permutation that reverses the order of equal elements.
ReverseRank(a) ==
    [i \in 1..Len(a) |->
        Cardinality({j \in 1..Len(a) : SortBefore(a[j], a[i])})
            + Cardinality({j \in i..Len(a) : ~SortBefore(a[j], a[i]) /\ ~SortBefore(a[i], a[j])})]

\* The elements of a put at their ranks.
Place(a, rank) ==
    TheOne({[k \in 1..Len(a) |-> a[CHOOSE i \in 1..Len(a) : ranks[i] = k]] :
               ranks \in {rank \o <<>>}})

\* std::sort orders by the comparison and promises nothing about the order of
\* equal elements: every ordered rearrangement is a possible result.  Above
\* PermLimit entries two of them are explored.
SortOutcomes(a) ==
    IF Len(a) <= PermLimit
        THEN {s \in {[k \in 1..Len(a) |-> a[p[k]]] : p \in Rearrangements(Len(a))} : Ordered(s)}
        ELSE {Place(a, StableRank(a)), Place(a, ReverseRank(a))}

(***************************************************************************)
(* The bit writer of encode and the bit reader of decode.                  *)
(***************************************************************************)
\* write_bit(): result_byte |= (1 << written_bits_on_result_byte)
write_bit(e) ==
    IF Bit(e.result_byte, e.written_bits_on_result_byte) = 1 THEN e
    ELSE [e EXCEPT !.result_byte = @ + Pow2(e.written_bits_on_result_byte)]

\* check_bit(): e holds result_byte, written_bits_on_result_byte, written_bits
\* and the bytes pushed on result so far.  written_bits is a uint32_t; the inputs
\* of the model write far fewer than 2^32 bits, where it would wrap.
check_bit(e) ==
    IF e.written_bits_on_result_byte + 1 = 8
        THEN [e EXCEPT !.written_bits = @ + 1,
                       !.pushed = Append(@, e.result_byte),
                       !.written_bits_on_result_byte = 0,
                       !.result_byte = 0]
        ELSE [e EXCEPT !.written_bits = @ + 1,
                       !.written_bits_on_result_byte = @ + 1]

\* The bits method1 hands to the writer for one value: max_depth_bits bits of
\* the depth, lowest first, then depth bits of the path.
DepthBits(max_depth_bits, pathInfo) ==
    [depth_bit \in 1..max_depth_bits |-> Bit(pathInfo.depth, depth_bit - 1)]

PathBits(pathInfo) ==
    [level \in 1..pathInfo.depth |-> IF (level - 1) \in pathInfo.bit_path THEN 1 ELSE 0]

RECURSIVE WriteBits(_, _, _)
WriteBits(e, bits, i) ==
    IF i > Len(bits) THEN e
    ELSE TheOne({WriteBits(checked, bits, i + 1) :
                     checked \in {check_bit(IF bits[i] = 1 THEN write_bit(e) ELSE e)}})

\* method1(path_info)
method1(e, max_depth_bits, pathInfo) ==
    WriteBits(e, DepthBits(max_depth_bits, pathInfo) \o PathBits(pathInfo), 1)

\* The bytes of a uint32_t in memory order.
Uint32Bytes(x) == [i \in 1..4 |-> (x \div Pow2(8 * (i - 1))) % 256]

\* Bytes a read outside the buffer may return.
GarbageBytes == {0, ByteMax}

\* data[index] of decode, whose buffer is the bytes encode returned.  A read at
\* or beyond size is outside the buffer: it returns whatever lies there.
ByteAt(index, garbage) == IF index < Len(result) THEN result[index + 1] ELSE garbage

\* read_bit() of decode on r, which holds read_bytes, read_bits_on_result_byte,
\* bits_read, the bits read so far, the highest byte index read (high_read) and
\* whether a read fell outside the buffer.
read_bit(r, garbage) ==
    LET value == Bit(ByteAt(r.read_bytes, garbage), r.read_bits_on_result_byte)
        wraps == r.read_bits_on_result_byte + 1 = 8
    IN [read_bytes |-> IF wraps THEN r.read_bytes + 1 ELSE r.read_bytes,
        read_bits_on_result_byte |-> IF wraps THEN 0 ELSE r.read_bits_on_result_byte + 1,
        bits_read |-> r.bits_read + 1,
        bits |-> Append(r.bits, value),
        high_read |-> Max(r.high_read, r.read_bytes),
        out_of_bounds |-> r.out_of_bounds \/ r.read_bytes >= Len(result)]

RECURSIVE ReadBits(_, _, _)
ReadBits(r, n, garbage) ==
    IF n = 0 THEN r
    ELSE TheOne({ReadBits(read, n - 1, garbage) : read \in {read_bit(r, garbage)}})

\* path_info.depth |= (bit << depth_bit) over the depth bits read.
RECURSIVE DepthOf(_, _)
DepthOf(bits, depth_bit) ==
    IF depth_bit > Len(bits) THEN 0
    ELSE bits[depth_bit] * Pow2(depth_bit - 1) + DepthOf(bits, depth_bit + 1)

\* path_info.bit_path[depth] = bit over the path bits read.
BitPathOf(bits) == {level \in 0..(Len(bits) - 1) : bits[level + 1] = 1}

(***************************************************************************)
(* Initial state: encode is entered with a buffer.                         *)
(***************************************************************************)
EncInit ==
    [value_index |-> 0, occ_index |-> 1, tree_index |-> 1, count |-> 0,
     run_index |-> 1, max_depth_bits |-> 0, path_info |-> ZeroPathInfo,
     result_byte |-> 0, written_bits_on_result_byte |-> 0, written_bits |-> 0]

DecInit ==
    [read_bytes |-> 0, max_depth_bits |-> 0, alphabet_size |-> 0, written_bits |-> 0,
     alphabet |-> <<>>, binary_tree |-> NewTree, tree_index |-> 1,
     read_bits_on_result_byte |-> 0, bits_read |-> 0, occurrences |-> <<>>,
     path_info |-> ZeroPathInfo, high_read |-> -1,
     garbage |-> 0, out_of_bounds |-> FALSE]

\* What lies outside the buffer does not change between two reads.
Garbage == IF dec.out_of_bounds THEN {dec.garbage} ELSE GarbageBytes

\* The resources init_mod takes from the kernel.
Resources == {"chrdev_region", "class", "cdev", "device"}

\* The module before init_mod: its statics are zero.
ModStart ==
    /\ mod_pc = "init_mod"
    /\ ret = 0
    /\ returned = 0
    /\ todo = <<>>
    /\ g_dev = 0
    /\ g_cl = "NULL"
    /\ acquired = [r \in Resources |-> 0]
    /\ released = [r \in Resources |-> 0]
    /\ hooks = FALSE

Init ==
    /\ width \in Widths
    /\ data \in Inputs(width)
    /\ pc = "occurrences"
    /\ occurrences = <<>>
    /\ alphabet = <<>>
    /\ binary_tree = NewTree
    /\ enc = EncInit
    /\ result = <<>>
    /\ dec = DecInit
    /\ decoded = <<>>
    /\ x86_64 = TRUE
    /\ ModStart

(***************************************************************************)
(* encode                                                                  *)
(***************************************************************************)
\* One iteration of the while loop that stores contiguous values.
StoreContiguous ==
    /\ pc = "occurrences"
    /\ enc.value_index < max_values
    /\ LET start == enc.value_index
           end   == ExtendOccurrence(start)
       IN /\ occurrences' = Append(occurrences,
                                   [letter_value |-> ValueAt(start),
                                    count |-> CountAt(start, end)])
          /\ enc' = [enc EXCEPT !.value_index = end]
    /\ UNCHANGED <<mod_vars, width, data, pc, alphabet, binary_tree, result, dec, decoded>>

\* One iteration of the loop that constructs the alphabet.
ConstructAlphabet ==
    /\ pc = "occurrences"
    /\ enc.value_index >= max_values
    /\ enc.occ_index <= Len(occurrences)
    /\ alphabet' = AddOccurrence(alphabet, occurrences[enc.occ_index])
    /\ enc' = [enc EXCEPT !.occ_index = @ + 1]
    /\ UNCHANGED <<mod_vars, width, data, pc, occurrences, binary_tree, result, dec, decoded>>

\* std::sort(alphabet.begin(), alphabet.end(), ...)
SortAlphabet ==
    /\ pc = "occurrences"
    /\ enc.value_index >= max_values
    /\ enc.occ_index > Len(occurrences)
    /\ alphabet' \in SortOutcomes(alphabet)
    /\ pc' = "tree"
    /\ UNCHANGED <<mod_vars, width, data, occurrences, binary_tree, enc, result, dec, decoded>>

\* One iteration of the loop that inserts the letters in the tree.
InsertLetter ==
    /\ pc = "tree"
    /\ enc.tree_index <= Len(alphabet)
    /\ binary_tree' = insert(binary_tree, alphabet[enc.tree_index].value)
    /\ enc' = [enc EXCEPT !.tree_index = @ + 1]
    /\ UNCHANGED <<mod_vars, width, data, pc, occurrences, alphabet, result, dec, decoded>>

\* From the tree's height to the alphabet entries: the header.
WriteHeader ==
    /\ pc = "tree"
    /\ enc.tree_index > Len(alphabet)
    /\ LET max_tree_depth == height(binary_tree, Root)
           max_depth_bits == BitsNeeded(max_tree_depth)
       IN /\ enc' = [enc EXCEPT !.max_depth_bits = max_depth_bits]
          /\ result' = <<AsByte(max_depth_bits), AsByte(Len(alphabet) - 1)>>
                           \o [i \in 1..Len(alphabet) |-> AsByte(alphabet[i].value)]
    /\ pc' = "bits"
    /\ UNCHANGED <<mod_vars, width, data, occurrences, alphabet, binary_tree, dec, decoded>>

\* The PathInfo the loop over the occurrences works with: computed by path_info
\* when an occurrence is entered (its returned bool is not looked at), kept for
\* the other values of the occurrence.
CurrentPathInfo ==
    IF enc.count = 0
        THEN path_info(width, binary_tree, ZeroPathInfo,
                       occurrences[enc.run_index].letter_value)
        ELSE [found |-> TRUE, info |-> enc.path_info, fault |-> FALSE]

\* One call of method1 in the loop over the occurrences (none for an occurrence
\* whose count is 0).  When path_info touches a bit outside bit_path_t, encode
\* does not return.
EncodeValue ==
    /\ pc = "bits"
    /\ enc.run_index <= Len(occurrences)
    /\ \E found \in {CurrentPathInfo} :
         \/ /\ found.fault
            /\ pc' = "encode_fault"
            /\ UNCHANGED <<enc, result>>
         \/ /\ ~found.fault
            /\ \E e \in {LET writer == [result_byte |-> enc.result_byte,
                                         written_bits_on_result_byte |->
                                             enc.written_bits_on_result_byte,
                                         written_bits |-> enc.written_bits,
                                         pushed |-> result]
                           IN IF enc.count < occurrences[enc.run_index].count
                                  THEN method1(writer, enc.max_depth_bits, found.info)
                                  ELSE writer} :
                 LET last == enc.count + 1 >= occurrences[enc.run_index].count IN
                 /\ result' = e.pushed
                 /\ enc' = [enc EXCEPT
                                !.path_info = found.info,
                                !.result_byte = e.result_byte,
                                !.written_bits_on_result_byte = e.written_bits_on_result_byte,
                                !.written_bits = e.written_bits,
                                !.count = IF last THEN 0 ELSE @ + 1,
                                !.run_index = IF last THEN @ + 1 ELSE @]
            /\ pc' = pc
    /\ UNCHANGED <<mod_vars, width, data, occurrences, alphabet, binary_tree, dec, decoded>>

\* Flush that leaves the last partial byte out.
FlushWithoutPartialByte ==
    /\ pc = "bits"
    /\ enc.run_index > Len(occurrences)
    /\ result' = result \o Uint32Bytes(enc.written_bits)
    /\ pc' = "encoded"
    /\ UNCHANGED <<mod_vars, width, data, occurrences, alphabet, binary_tree, enc, dec, decoded>>

\* The last partial byte and the counter of written bits; encode returns.
Flush ==
    /\ pc = "bits"
    /\ enc.run_index > Len(occurrences)
    /\ result' = (IF enc.written_bits_on_result_byte > 0
                      THEN Append(result, enc.result_byte)
                      ELSE result) \o Uint32Bytes(enc.written_bits)
    /\ pc' = "encoded"
    /\ UNCHANGED <<mod_vars, width, data, occurrences, alphabet, binary_tree, enc, dec, decoded>>

(***************************************************************************)
(* decode, called on the buffer encode returned.                           *)
(***************************************************************************)
\* The two header bytes, the counter at the end of the buffer and the alphabet
\* entries.  A read outside the buffer is undefined behaviour: it returns a
\* byte that lies there, or decode does not return.
ParseHeader ==
    /\ pc = "encoded"
    /\ \E garbage \in Garbage :
         LET size           == Len(result)
             max_depth_bits == ByteAt(0, garbage)
             alphabet_size  == ByteAt(1, garbage) + 1
             written_bits   == LittleEndian(result, size - 3, 4)
             outside        == 2 + alphabet_size > size
         IN \/ /\ dec' = [dec EXCEPT
                              !.max_depth_bits = max_depth_bits,
                              !.alphabet_size = alphabet_size,
                              !.written_bits = written_bits,
                              !.alphabet = [i \in 1..alphabet_size |->
                                               [value |-> ByteAt(1 + i, garbage), freq |-> 0]],
                              !.read_bytes = 2 + alphabet_size,
                              !.high_read = 1 + alphabet_size,
                              !.garbage = IF outside THEN garbage ELSE @,
                              !.out_of_bounds = outside]
               /\ pc' = "decoding"
            \/ /\ outside
               /\ pc' = "decode_fault"
               /\ dec' = dec
    /\ UNCHANGED <<mod_vars, width, data, occurrences, alphabet, binary_tree, enc, result, decoded>>

\* One iteration of the loop that constructs the tree.
RebuildTree ==
    /\ pc = "decoding"
    /\ dec.tree_index <= Len(dec.alphabet)
    /\ dec' = [dec EXCEPT !.binary_tree = insert(@, dec.alphabet[dec.tree_index].value),
                          !.tree_index = @ + 1]
    /\ UNCHANGED <<mod_vars, width, data, pc, occurrences, alphabet, binary_tree, enc, result, decoded>>

\* One iteration of the while loop over the bits: the depth, the path, the value.
DecodeValue ==
    /\ pc = "decoding"
    /\ dec.tree_index > Len(dec.alphabet)
    /\ dec.bits_read < dec.written_bits
    /\ \E garbage \in Garbage :
       \E depth_read \in {ReadBits([read_bytes |-> dec.read_bytes,
                                    read_bits_on_result_byte |-> dec.read_bits_on_result_byte,
                                    bits_read |-> dec.bits_read,
                                    bits |-> <<>>,
                                    high_read |-> dec.high_read,
                                    out_of_bounds |-> dec.out_of_bounds],
                                   dec.max_depth_bits, garbage)} :
       \E path_read \in {ReadBits([depth_read EXCEPT !.bits = <<>>],
                                  DepthOf(depth_read.bits, 1), garbage)} :
         LET pathInfo == [bit_path |-> BitPathOf(path_read.bits),
                          depth |-> DepthOf(depth_read.bits, 1)]
             found    == find_value(width, dec.binary_tree, pathInfo)
             outside  == path_read.out_of_bounds /\ ~dec.out_of_bounds
         IN \/ /\ ~found.fault
               /\ dec' = [dec EXCEPT
                              !.read_bytes = path_read.read_bytes,
                              !.read_bits_on_result_byte = path_read.read_bits_on_result_byte,
                              !.bits_read = path_read.bits_read,
                              !.high_read = path_read.high_read,
                              !.out_of_bounds = path_read.out_of_bounds,
                              !.garbage = IF outside THEN garbage ELSE @,
                              !.path_info = pathInfo,
                              !.occurrences =
                                  Append(@, [letter_value |-> found.letter_value, count |-> 1])]
               /\ pc' = pc
            \/ /\ found.fault \/ outside
               /\ pc' = "decode_fault"
               /\ dec' = dec
    /\ UNCHANGED <<mod_vars, width, data, occurrences, alphabet, binary_tree, enc, result, decoded>>

\* The loop over the bits has ended: the values are pushed on the result.
DecodeReturn ==
    /\ pc = "decoding"
    /\ dec.tree_index > Len(dec.alphabet)
    /\ dec.bits_read >= dec.written_bits
    /\ decoded' = [i \in 1..Len(dec.occurrences) |-> AsByte(dec.occurrences[i].letter_value)]
    /\ pc' = "done"
    /\ UNCHANGED <<mod_vars, width, data, occurrences, alphabet, binary_tree, enc, result, dec>>

Next ==
    \/ StoreContiguous
    \/ ConstructAlphabet
    \/ SortAlphabet
    \/ InsertLetter
    \/ WriteHeader
    \/ EncodeValue
    \/ Flush
    \/ ParseHeader
    \/ RebuildTree
    \/ DecodeValue
    \/ DecodeReturn

Spec == Init /\ [][Next]_vars

\* encode and decode are sequential code: a call that can take its next step
\* takes it.
FairSpec == Spec /\ WF_vars(Next)

(***************************************************************************)
(* The winexts kernel module: init_mod and free_mod (src/winexts/main.c).  *)
(* Every kernel call is one step.  A branch that gives resources back puts *)
(* its calls in todo and they run in that order.  The kernel's functions   *)
(* are modelled by their documented results: alloc_chrdev_region and       *)
(* cdev_add return 0 or a negative errno; class_create and device_create   *)
(* return the object or, on failure, ERR_PTR(-errno).  NULL, the value     *)
(* init_mod tests for, is kept as a further failure result.                *)
(***************************************************************************)
\* Device numbers alloc_chrdev_region may hand out.
DevNumbers == {MajorMinor * 1048576 : MajorMinor \in {234, 235}}

\* Negative errno values: -ENOMEM, -EBUSY.
Errnos == {-12, -16}

\* What class_create and device_create return when they fail.
FailedPointers == {"ERR_PTR", "NULL"}

Acquire(r) == acquired' = [acquired EXCEPT ![r] = @ + 1]

Release(r) == released' = [released EXCEPT ![r] = @ + 1]

\* A failure branch of init_mod: the calls that give back, then return -1.
Unwind(calls) ==
    /\ todo' = calls
    /\ mod_pc' = "unwinding"

\* The call at the head of todo is done; after the last one init_mod returns -1,
\* or free_mod returns.
Called ==
    /\ todo' = Tail(todo)
    /\ IF Len(todo) > 1
           THEN UNCHANGED <<mod_pc, returned>>
       ELSE IF mod_pc = "unwinding"
           THEN mod_pc' = "failed" /\ returned' = -1
       ELSE mod_pc' = "unloaded" /\ UNCHANGED returned

Calling(name) == mod_pc \in {"unwinding", "freeing"} /\ todo # <<>> /\ Head(todo) = name

\* Entry of init_mod: the architecture test.
InitMod ==
    /\ mod_pc = "init_mod"
    /\ IF x86_64
           THEN mod_pc' = "alloc_chrdev_region" /\ UNCHANGED returned
           ELSE mod_pc' = "failed" /\ returned' = -1
    /\ UNCHANGED <<xkc_vars, x86_64, ret, todo, g_dev, g_cl, acquired, released, hooks>>

\* ret = alloc_chrdev_region(&g_dev, 0, 1, DEVICE_FILE_NAME); if (ret < 0) return ret;
AllocChrdevRegion ==
    /\ mod_pc = "alloc_chrdev_region"
    /\ \/ /\ ret' = 0
          /\ g_dev' \in DevNumbers
          /\ Acquire("chrdev_region")
          /\ mod_pc' = "class_create"
          /\ UNCHANGED returned
       \/ /\ ret' \in Errnos
          /\ returned' = ret'
          /\ mod_pc' = "failed"
          /\ UNCHANGED <<g_dev, acquired>>
    /\ UNCHANGED <<xkc_vars, x86_64, todo, g_cl, released, hooks>>

\* g_cl = class_create(THIS_MODULE, DEVICE_CLASS_NAME); if (g_cl == NULL) ...
ClassCreate ==
    /\ mod_pc = "class_create"
    /\ \/ /\ g_cl' = "class"
          /\ Acquire("class")
       \/ /\ g_cl' \in FailedPointers
          /\ UNCHANGED acquired
    /\ IF g_cl' = "NULL"
           THEN Unwind(<<"unregister_chrdev_region">>)
           ELSE mod_pc' = "cdev_add" /\ UNCHANGED todo
    /\ UNCHANGED <<xkc_vars, x86_64, ret, returned, g_dev, released, hooks>>

\* cdev_init(&g_cdev, &g_fops); if (cdev_add(&g_cdev, g_dev, 1) < 0) ...
CdevAdd ==
    /\ mod_pc = "cdev_add"
    /\ \/ /\ Acquire("cdev")
          /\ mod_pc' = "device_create"
          /\ UNCHANGED todo
       \/ /\ UNCHANGED acquired
          /\ Unwind(<<"class_destroy", "unregister_chrdev_region">>)
    /\ UNCHANGED <<xkc_vars, x86_64, ret, returned, g_dev, g_cl, released, hooks>>

\* if (device_create(g_cl, NULL, g_dev, NULL, DEVICE_FMT) == NULL) ...
\* device_create fails when the class it is given is not a class.
DeviceCreate ==
    /\ mod_pc = "device_create"
    /\ \E device \in (IF g_cl = "class" THEN {"device"} ELSE {}) \cup FailedPointers :
         /\ IF device = "device" THEN Acquire("device") ELSE UNCHANGED acquired
         /\ IF device = "NULL"
                THEN Unwind(<<"class_destroy", "cdev_del", "unregister_chrdev_region">>)
                ELSE mod_pc' = "find_css_set_lock" /\ UNCHANGED todo
    /\ UNCHANGED <<xkc_vars, x86_64, ret, returned, g_dev, g_cl, released, hooks>>

\* One of the three symbol lookups: if (find_...() < 0) ...
Find(here, next) ==
    /\ mod_pc = here
    /\ \/ mod_pc' = next /\ UNCHANGED todo
       \/ Unwind(<<"device_destroy", "class_destroy", "cdev_del",
                   "unregister_chrdev_region">>)
    /\ UNCHANGED <<xkc_vars, x86_64, ret, returned, g_dev, g_cl, acquired, released, hooks>>

FindCssSetLock == Find("find_css_set_lock", "find_tasklist_lock")

FindTasklistLock == Find("find_tasklist_lock", "find_cpu_runqueues")

FindCpuRunqueues == Find("find_cpu_runqueues", "init_hooks")

\* if (!init_hooks()) ...; return 0;
InitHooks ==
    /\ mod_pc = "init_hooks"
    /\ \/ /\ hooks' = TRUE
          /\ returned' = 0
          /\ mod_pc' = "loaded"
          /\ UNCHANGED todo
       \/ /\ Unwind(<<"device_destroy", "class_destroy", "cdev_del",
                      "unregister_chrdev_region">>)
          /\ UNCHANGED <<hooks, returned>>
    /\ UNCHANGED <<xkc_vars, x86_64, ret, g_dev, g_cl, acquired, released>>

\* free_mod: clean_hooks(), then the four calls that give back.
FreeMod ==
    /\ mod_pc = "loaded"
    /\ hooks' = FALSE
    /\ todo' = <<"device_destroy", "class_destroy", "cdev_del", "unregister_chrdev_region">>
    /\ mod_pc' = "freeing"
    /\ UNCHANGED <<xkc_vars, x86_64, ret, returned, g_dev, g_cl, acquired, released>>

\* device_destroy(g_cl, g_dev): looks the device up in the class and unregisters
\* it when it is there.  With a g_cl that is not a class the lookup reads
\* through an invalid pointer: the kernel oopses.
DeviceDestroy ==
    /\ Calling("device_destroy")
    /\ IF g_cl = "ERR_PTR"
           THEN /\ mod_pc' = "oops"
                /\ UNCHANGED <<todo, returned, released>>
           ELSE /\ IF g_cl = "class" /\ acquired["device"] > released["device"]
                       THEN Release("device")
                       ELSE UNCHANGED released
                /\ Called
    /\ UNCHANGED <<xkc_vars, x86_64, ret, g_dev, g_cl, acquired, hooks>>

\* class_destroy(g_cl): does nothing for NULL or an error pointer.
ClassDestroy ==
    /\ Calling("class_destroy")
    /\ IF g_cl = "class" THEN Release("class") ELSE UNCHANGED released
    /\ Called
    /\ UNCHANGED <<xkc_vars, x86_64, ret, g_dev, g_cl, acquired, hooks>>

\* cdev_del(&g_cdev)
CdevDel ==
    /\ Calling("cdev_del")
    /\ Release("cdev")
    /\ Called
    /\ UNCHANGED <<xkc_vars, x86_64, ret, g_dev, g_cl, acquired, hooks>>

\* unregister_chrdev_region(g_dev, 1)
UnregisterChrdevRegion ==
    /\ Calling("unregister_chrdev_region")
    /\ Release("chrdev_region")
    /\ Called
    /\ UNCHANGED <<xkc_vars, x86_64, ret, g_dev, g_cl, acquired, hooks>>

\* The module is loaded on a machine; the codec is not running.
ModInit ==
    /\ x86_64 \in BOOLEAN
    /\ ModStart
    /\ width = 1
    /\ data = <<>>
    /\ pc = "occurrences"
    /\ occurrences = <<>>
    /\ alphabet = <<>>
    /\ binary_tree = NewTree
    /\ enc = EncInit
    /\ result = <<>>
    /\ dec = DecInit
    /\ decoded = <<>>

ModNext ==
    \/ InitMod
    \/ AllocChrdevRegion
    \/ ClassCreate
    \/ CdevAdd
    \/ DeviceCreate
    \/ FindCssSetLock
    \/ FindTasklistLock
    \/ FindCpuRunqueues
    \/ InitHooks
    \/ FreeMod
    \/ DeviceDestroy
    \/ ClassDestroy
    \/ CdevDel
    \/ UnregisterChrdevRegion

ModSpec == ModInit /\ [][ModNext]_vars

(***************************************************************************)
(* Vocabulary of the properties.                                           *)
(***************************************************************************)
NonEmpty == max_values > 0

\* The run-length pass is over.
Collected == enc.value_index >= max_values

\* encode has written the header.
HeaderWritten == pc \in {"bits", "encoded", "decoding", "done", "encode_fault", "decode_fault"}

\* encode has returned its buffer.
Returned == pc \in {"encoded", "decoding", "done", "decode_fault"}

\* decode has parsed the header.
Parsed == pc \in {"decoding", "done"}

\* The call of encode, or of decode, is over.
Ended == pc \in {"done", "encode_fault", "decode_fault"}

\* Sum of f[1..Len(f)], f a sequence of natural numbers.
Sum(f) == Cardinality(UNION {{<<i, k>> : k \in 1..f[i]} : i \in 1..Len(f)})

\* floor(log2(n)) for n >= 1.
RECURSIVE FloorLog2(_)
FloorLog2(n) == IF n <= 1 THEN 0 ELSE 1 + FloorLog2(n \div 2)

\* The symbols inserted in tree t.
Inserted(t) == {t.value[n] : n \in 1..NumNodes(t)} \ {INVALID}

\* The node of t that holds value v.
NodeOf(t, v) == CHOOSE n \in 1..NumNodes(t) : t.value[n] = v

\* Number of bits encode has to write: for every run, count times the depth
\* field and the path of the run's symbol.
ExactBits ==
    Sum([i \in 1..Len(occurrences) |->
            occurrences[i].count
                * (enc.max_depth_bits
                     + depth(binary_tree, NodeOf(binary_tree, occurrences[i].letter_value)))])

\* The counter at the end of the buffer encode returned.
TrailingCounter == LittleEndian(result, Len(result) - 3, 4)

\* Number of occurrences of symbol v in the input.
CountIn(v) == Cardinality({k \in 1..max_values : ValueAt(k - 1) = v})

\* Index (from 0) of the first occurrence of v in the input.
FirstSeen(v) ==
    CHOOSE k \in 0..(max_values - 1) :
        ValueAt(k) = v /\ \A j \in 0..(k - 1) : ValueAt(j) # v

(***************************************************************************)
(* C1  Round trip, one-byte symbols: for every non-empty buffer, decode    *)
(* of what encode returned ends and gives the buffer back, byte for byte.  *)
(***************************************************************************)
RoundTrip ==
    (width = 1 /\ NonEmpty /\ Ended) => (pc = "done" /\ decoded = data)

(***************************************************************************)
(* C2  Bitstream exactness: the counter at the end of every buffer encode  *)
(* returns is the exact number of bits written, and decode leaves its loop *)
(* having read exactly that many bits.                                     *)
(***************************************************************************)
BitstreamExact ==
    NonEmpty =>
        /\ Returned => TrailingCounter = ExactBits
        /\ Parsed => dec.bits_read <= ExactBits
        /\ pc = "done" => dec.bits_read = ExactBits
        /\ pc # "decode_fault"

(***************************************************************************)
(* C3  Wire format: for every width, the buffer encode returns is the two  *)
(* header bytes, alphabet_size * sizeof(symbol) bytes holding the symbols  *)
(* in full in descending order of frequency, ceil(total_bits / 8) bytes of *)
(* bits and the 4-byte counter; decode reads the same symbols back.        *)
(***************************************************************************)
WireFormat ==
    (NonEmpty /\ Returned) =>
        /\ Len(result) = 2 + Len(alphabet) * width + ((ExactBits + 7) \div 8) + 4
        /\ result[1] = enc.max_depth_bits
        /\ result[2] = Len(alphabet) - 1
        /\ \A i \in 1..Len(alphabet) :
               LittleEndian(result, 2 + (i - 1) * width + 1, width) = alphabet[i].value
        /\ \A i \in 1..(Len(alphabet) - 1) : alphabet[i].freq >= alphabet[i + 1].freq
        /\ TrailingCounter = ExactBits
        /\ Parsed => [i \in 1..Len(dec.alphabet) |-> dec.alphabet[i].value]
                         = [i \in 1..Len(alphabet) |-> alphabet[i].value]

(***************************************************************************)
(* C4  Alphabet bound: for every non-empty input the alphabet has between  *)
(* 1 and 256 entries, one per distinct symbol, the second header byte is   *)
(* alphabet.size() - 1 and decode recovers alphabet.size() from it.        *)
(***************************************************************************)
AlphabetBound ==
    NonEmpty =>
        /\ (Collected /\ enc.occ_index > Len(occurrences)) =>
               /\ Len(alphabet) \in 1..(ByteMax + 1)
               /\ {alphabet[i].value : i \in 1..Len(alphabet)}
                      = {ValueAt(k) : k \in 0..(max_values - 1)}
               /\ Cardinality({alphabet[i].value : i \in 1..Len(alphabet)}) = Len(alphabet)
        /\ HeaderWritten => result[2] = Len(alphabet) - 1
        /\ Parsed => dec.alphabet_size = Len(alphabet)

(***************************************************************************)
(* C5  Depth/width consistency: the max_depth_bits of the header satisfies *)
(* 2^max_depth_bits - 1 >= height of the tree, so that no depth of a       *)
(* symbol loses a bit when it is written in max_depth_bits bits and read   *)
(* back.                                                                   *)
(***************************************************************************)
DepthWidthConsistent ==
    HeaderWritten =>
        /\ result[1] = enc.max_depth_bits
        /\ Pow2(enc.max_depth_bits) - 1 >= height(binary_tree, Root)
        /\ enc.path_info.depth <= Pow2(enc.max_depth_bits) - 1
        /\ DepthOf(DepthBits(enc.max_depth_bits, enc.path_info), 1) = enc.path_info.depth
        /\ (pc = "bits" /\ enc.run_index = 1 /\ enc.count = 0) =>
               \A n \in 1..NumNodes(binary_tree) :
                   /\ depth(binary_tree, n) <= height(binary_tree, Root)
                   /\ DepthOf(DepthBits(enc.max_depth_bits,
                                        [depth |-> depth(binary_tree, n)]), 1)
                          = depth(binary_tree, n)
        /\ Parsed => dec.max_depth_bits = enc.max_depth_bits

\* A depth of 8 written in the 4 bits the header announces.
DepthWidthWitness ==
    /\ pc = "bits"
    /\ enc.max_depth_bits = 4
    /\ enc.path_info.depth = 8
    /\ height(binary_tree, Root) = 8

(***************************************************************************)
(* C6  Run cap: every run of the run-length pass has a count in 1..255; a  *)
(* stretch of more than 255 equal symbols gives several consecutive runs   *)
(* of the symbol, and the one-byte count never wraps to 0.                 *)
(***************************************************************************)
RunCap ==
    /\ \A i \in 1..Len(occurrences) : occurrences[i].count \in 1..ByteMax
    /\ pc = "occurrences" =>
           /\ Sum([i \in 1..Len(occurrences) |-> occurrences[i].count]) = enc.value_index
           /\ Len(occurrences) > 0 =>
                  LET last == occurrences[Len(occurrences)] IN
                  \A k \in (enc.value_index - last.count)..(enc.value_index - 1) :
                      ValueAt(k) = last.letter_value

\* A stretch of 512 equal symbols has been stored as runs of 255, 255 and 2.
RunCapWitness ==
    /\ Collected
    /\ Len(occurrences) >= 3
    /\ occurrences[1].count = ByteMax
    /\ occurrences[2].count = ByteMax
    /\ occurrences[3].count = 2
    /\ occurrences[1].letter_value = occurrences[2].letter_value
    /\ occurrences[2].letter_value = occurrences[3].letter_value

(***************************************************************************)
(* C7  find_value is the inverse of path_info: after any inserts of        *)
(* distinct symbols, path_info of an inserted symbol returns true with a   *)
(* depth and a path on which find_value returns that symbol.               *)
(***************************************************************************)
FindValueInverts ==
    pc = "tree" =>
        \A s \in Inserted(binary_tree) :
            LET found == path_info(width, binary_tree, ZeroPathInfo, s) IN
            /\ ~found.fault
            /\ found.found
            /\ ~find_value(width, binary_tree, found.info).fault
            /\ find_value(width, binary_tree, found.info).letter_value = s

(***************************************************************************)
(* C8  Tree shape: after any inserts no node has a right child without a   *)
(* left child, and where a node has two children                           *)
(* 0 <= count_nodes(left) - count_nodes(right) <= 1.                       *)
(***************************************************************************)
ShapeOK(t) ==
    \A n \in 1..NumNodes(t) :
        /\ t.right[n] # 0 => t.left[n] # 0
        /\ (t.left[n] # 0 /\ t.right[n] # 0) =>
               count_nodes(t, t.left[n]) - count_nodes(t, t.right[n]) \in {0, 1}

TreeShape ==
    /\ pc = "tree" => ShapeOK(binary_tree)
    /\ (pc = "decoding" /\ dec.bits_read = 0) => ShapeOK(dec.binary_tree)

\* A tree of 256 nodes whose root has subtrees of 127 and 126 descendants.
TreeShapeWitness ==
    /\ pc = "tree"
    /\ NumNodes(binary_tree) = ByteMax + 1
    /\ count_nodes(binary_tree, binary_tree.left[Root])
           = count_nodes(binary_tree, binary_tree.right[Root]) + 1

(***************************************************************************)
(* C9  Alphabet order, as claimed: frequencies are the numbers of          *)
(* occurrences, the alphabet is in descending order of frequency, and      *)
(* letters of equal frequency are in first-seen order.                     *)
(***************************************************************************)
FrequenciesExact ==
    /\ \A i \in 1..Len(alphabet) : alphabet[i].freq = CountIn(alphabet[i].value)
    /\ {alphabet[i].value : i \in 1..Len(alphabet)} = {ValueAt(k) : k \in 0..(max_values - 1)}
    /\ Cardinality({alphabet[i].value : i \in 1..Len(alphabet)}) = Len(alphabet)

Descending == \A i \in 1..(Len(alphabet) - 1) : alphabet[i].freq >= alphabet[i + 1].freq

TiesInFirstSeenOrder ==
    \A i \in 1..(Len(alphabet) - 1) :
        alphabet[i].freq = alphabet[i + 1].freq =>
            FirstSeen(alphabet[i].value) < FirstSeen(alphabet[i + 1].value)

RankGivesDepth ==
    pc = "tree" =>
        LET depths == [n \in 1..NumNodes(binary_tree) |-> depth(binary_tree, n)] \o <<>>
            last   == enc.tree_index - 1
        IN /\ \A n \in 1..last :
                  /\ binary_tree.value[n] = alphabet[n].value
                  /\ depths[n] = FloorLog2(n)
           /\ \A n \in 1..(last - 1) : depths[n] <= depths[n + 1]
           /\ last = Len(alphabet) =>
                  \A i, j \in 1..last :
                      alphabet[i].freq > alphabet[j].freq => depths[i] <= depths[j]

\* Every byte value inserted, the last at depth 8; the input with the long
\* stretch gives letters of different frequencies at different depths.
RankGivesDepthWitness ==
    /\ pc = "tree"
    /\ enc.tree_index - 1 = Len(alphabet)
    /\ Len(alphabet) = ByteMax + 1
    /\ depth(binary_tree, ByteMax + 1) = 8

(***************************************************************************)
(* C11  Tree determinism between the two sides: for every non-empty input, *)
(* once decode has rebuilt its tree from the alphabet entries of the       *)
(* header, that tree is the tree encode built: same shape, same symbol at  *)
(* every node.                                                             *)
(***************************************************************************)
TreeDeterminism ==
    (NonEmpty /\ Parsed /\ dec.tree_index > Len(dec.alphabet)) =>
        /\ [i \in 1..Len(dec.alphabet) |-> dec.alphabet[i].value]
               = [i \in 1..Len(alphabet) |-> alphabet[i].value]
        /\ dec.binary_tree = binary_tree

(***************************************************************************)
(* C12  path_info leaves no residue: called with a zero-initialised        *)
(* PathInfo on any tree the inserts build, for a symbol of the input,      *)
(* path_info returns; it returns false only if the symbol was never        *)
(* inserted and then leaves bit_path all zero; when it returns true, depth *)
(* is the depth of the symbol's node, bit i of bit_path for i < depth is 1 *)
(* exactly when the path to the node goes right at level i, and every bit  *)
(* at an index >= depth is 0.                                              *)
(***************************************************************************)
\* The levels at which the path from the root to node n goes right.
RECURSIVE RightTurns(_, _)
RightTurns(t, n) ==
    IF t.parent[n] = 0 THEN {}
    ELSE (IF t.right[t.parent[n]] = n THEN {depth(t, t.parent[n])} ELSE {})
             \cup RightTurns(t, t.parent[n])

PathInfoNoResidue ==
    pc = "tree" =>
        \A s \in {ValueAt(k) : k \in 0..(max_values - 1)} :
            LET found == path_info(width, binary_tree, ZeroPathInfo, s) IN
            /\ ~found.fault
            /\ found.found <=> s \in Inserted(binary_tree)
            /\ ~found.found => found.info.bit_path = {}
            /\ found.found =>
                   /\ found.info.depth = depth(binary_tree, NodeOf(binary_tree, s))
                   /\ found.info.bit_path = RightTurns(binary_tree, NodeOf(binary_tree, s))
                   /\ \A i \in found.info.bit_path : i < found.info.depth

(***************************************************************************)
(* C13  The run-length pass is lossless and minimal: when the pass is over *)
(* the runs, each symbol repeated count times, in order, are the input     *)
(* symbol sequence; the counts sum to the number of input symbols; two     *)
(* adjacent runs carry the same symbol only when the earlier one has count *)
(* 255; an empty input gives no run.                                       *)
(***************************************************************************)
\* Number of symbols in the runs before run i.
RunStarts(runs) ==
    [i \in 1..(Len(runs) + 1) |-> Sum([j \in 1..(i - 1) |-> runs[j].count])] \o <<>>

\* The runs expanded: each symbol repeated count times, in order.
Expand(runs) ==
    LET starts == RunStarts(runs) IN
    [k \in 1..starts[Len(runs) + 1] |->
        runs[CHOOSE i \in 1..Len(runs) : starts[i] < k /\ k <= starts[i + 1]].letter_value]

\* The run-length pass has just ended.
PassOver == pc = "occurrences" /\ Collected /\ enc.occ_index = 1

RunLengthLossless ==
    PassOver =>
        /\ Expand(occurrences) = Values
        /\ Sum([i \in 1..Len(occurrences) |-> occurrences[i].count]) = max_values
        /\ \A i \in 1..(Len(occurrences) - 1) :
               occurrences[i].letter_value = occurrences[i + 1].letter_value
                   => occurrences[i].count = ByteMax
        /\ max_values = 0 => occurrences = <<>>

\* The stretch of 512 equal symbols and the symbol after it have been stored
\* as four runs, the first three of the same symbol.
RunLengthWitness ==
    /\ PassOver
    /\ max_values = 2 * ByteMax + 3
    /\ Len(occurrences) = 4
    /\ occurrences[1].letter_value = occurrences[3].letter_value
    /\ occurrences[3].letter_value # occurrences[4].letter_value
    /\ Expand(occurrences) = Values

(***************************************************************************)
(* C14  decode stays in bounds and terminates on encoder output: for every *)
(* buffer encode returns from a non-empty input of one-byte symbols,       *)
(* decode returns; every byte index it reads is below the buffer size, the *)
(* alphabet and bitstream reads stay below size - 4, never reading the     *)
(* trailing counter as data, and find_value never follows a missing child. *)
(***************************************************************************)
DecodeStaysInBounds ==
    (width = 1 /\ NonEmpty) =>
        /\ pc # "decode_fault"
        /\ ~dec.out_of_bounds
        /\ Returned => Len(result) >= 4
        /\ Parsed =>
               /\ dec.high_read < Len(result) - 4
               /\ dec.read_bytes <= Len(result) - 4
               /\ 2 + dec.alphabet_size <= Len(result) - 4
        /\ (Parsed /\ dec.bits_read > 0) =>
               ~find_value(width, dec.binary_tree, dec.path_info).fault

DecodeInBoundsAndTerminates ==
    /\ []DecodeStaysInBounds
    /\ (width = 1 /\ NonEmpty) => <>(pc = "done")

\* decode has returned after reading a bitstream of several bytes up to its
\* last byte, the byte before the trailing counter.
DecodeInBoundsWitness ==
    /\ width = 1
    /\ pc = "done"
    /\ Len(dec.occurrences) >= 4
    /\ dec.bits_read > 8
    /\ dec.high_read = Len(result) - 5
    /\ dec.read_bytes >= Len(result) - 5

(***************************************************************************)
(* C15  Kernel module init unwinding: whatever step of init_mod fails,     *)
(* init_mod returns a non-zero value and every resource it had acquired    *)
(* (chrdev region, class, cdev, device) is released exactly once and none  *)
(* that was not acquired is released; when init_mod returns 0 all four are *)
(* held, and free_mod then releases each of them exactly once.             *)
(***************************************************************************)
InitUnwinds ==
    /\ mod_pc # "oops"
    /\ \A r \in Resources : acquired[r] <= 1 /\ released[r] <= acquired[r]
    /\ mod_pc = "failed" =>
           /\ returned # 0
           /\ \A r \in Resources : released[r] = acquired[r]
    /\ mod_pc \in {"loaded", "freeing", "unloaded"} =>
           /\ returned = 0
           /\ \A r \in Resources : acquired[r] = 1
    /\ mod_pc = "loaded" => \A r \in Resources : released[r] = 0
    /\ mod_pc = "unloaded" => \A r \in Resources : released[r] = 1

====
